---- MODULE Spec2Model ----
(***************************************************************************)
(* Model of the oml server: one Model<T> (a Vec<T> in a SyncUnsafeCell)    *)
(* shared through an Arc by every request handler, an Algorithm whose      *)
(* training_step / inference_step run on spawn_blocking workers, and the   *)
(* two actix handlers that await the worker and build the HTTP response.   *)
(*                                                                         *)
(* SyncUnsafeCell hands out &mut Vec<T> and &Vec<T> without any lock, so   *)
(* the element loads and stores of concurrently running steps interleave;  *)
(* the model takes one step per element load and per element store.        *)
(***************************************************************************)
EXTENDS Integers, Sequences, FiniteSets, TLC

\* ------------------------------------------------------------------ bounds
NumTasks == 2      \* requests the server receives in one run
MaxLen == 2        \* longest initial parameter vector
MantBits == 3      \* significand width of the modelled float (f32 has 24)
MaxExp == 3        \* largest exponent of the modelled float (f32 has 127)

Tasks == 1..NumTasks
Vals == {1, 2}      \* values of the initial parameters
Inputs == {3}       \* JSON input of the requests (3 makes products round)
Msgs == {"poisoned", "boom"}   \* error and panic messages

\* Sequences over S of length at most n.
SeqsUpTo(S, n) == UNION {[1..k -> S] : k \in 0..n}

\* -------------------------------------------------------- float arithmetic
\* T: Float.  Values are non-negative numbers with MantBits significant
\* bits; a product or sum that needs more bits is rounded to nearest, ties
\* to even, as IEEE-754 arithmetic does, and one that rounds to more than
\* the largest finite value overflows to infinity.  No operand is negative
\* and no factor is zero, so no operation yields a NaN.
RECURSIVE Pow2(_)
Pow2(n) == IF n = 0 THEN 1 ELSE 2 * Pow2(n - 1)

RECURSIVE Ulp(_)
Ulp(n) == IF n < Pow2(MantBits) THEN 1 ELSE 2 * Ulp(n \div 2)

Round(n) ==
    LET s == Ulp(n)
        q == n \div s
        r == n % s
    IN  IF 2 * r > s \/ (2 * r = s /\ q % 2 = 1) THEN (q + 1) * s ELSE q * s

\* T::infinity(), and the largest finite value (T::max_value()).
Inf == -1
MaxFinite == (Pow2(MantBits) - 1) * Pow2(MaxExp)

Overflow(n) == IF n > MaxFinite THEN Inf ELSE n

FMul(a, b) == IF a = Inf \/ b = Inf THEN Inf ELSE Overflow(Round(a * b))
FAdd(a, b) == IF a = Inf \/ b = Inf THEN Inf ELSE Overflow(Round(a + b))

\* ------------------------------------------------------------------- state
VARIABLES
    parameters,   \* Model.parameters: the Vec<T> inside the SyncUnsafeCell
    initial,      \* the Vec<T> the Model was constructed with
    algorithm,    \* the Algorithm implementation given to run_server
    req,          \* per request: the route it arrived on and its JSON input
    pc,           \* per request: where its spawn_blocking closure is
    idx,          \* per request: position of the step's iterator (1-based)
    acc,          \* per request: the loaded element (training) or the running sum (inference)
    result,       \* per request: what the JoinHandle resolves to
    response,     \* per request: the HttpResponse the handler returned
    raced,        \* per request: a training step has been running while its step ran
    snap,         \* per request: the parameters when its step began (kept while not raced)
    late          \* per request: it began after a training step panicked

vars == <<parameters, initial, algorithm, req, pc, idx, acc, result, response,
          snap, raced, late>>

Algorithms == {"DummyAlgorithm", "FaultingAlgorithm"}

NoReq == [kind |-> "none", input |-> 0]
NoResult == [tag |-> "Pending", val |-> 0, msg |-> ""]
NoResponse == [status |-> 0, body |-> <<>>, json |-> <<>>]

\* A step that reports a poisoned lock instead of success.
PoisonedUnit == [tag |-> "Err", val |-> 0, msg |-> "poisoned"]

\* Result<_, ModelError> of a step, and the JoinError of a panicked worker.
OkUnit == [tag |-> "Ok", val |-> 0, msg |-> ""]
OkVal(v) == [tag |-> "Ok", val |-> v, msg |-> ""]
LockError(m) == [tag |-> "Err", val |-> 0, msg |-> m]
JoinError(m) == [tag |-> "JoinError", val |-> 0, msg |-> m]

\* ----------------------------------------------------------------- model.rs
\* Model::new() and Model::with_parameters(params)
ModelNew == <<>>
WithParameters(params) == params

\* A step is running from the moment it takes its reference to the vector
\* until it returns or panics.
Running(t) == pc[t] \in {"iter", "store"}
FinishedOnlyByReturn(t) == pc[t] = "returned"
Finished(t) == pc[t] \in {"returned", "panicked"}

\* data.model.clone() clones the Arc, not the Model: the closure of every
\* request works on the one vector of the shared state.
ModelCloned(t) == initial
ModelOf(t) == parameters

\* training_step holds the &mut Vec<T> of get_parameters_mut while it runs.
HoldsMut(t) == req[t].kind = "training" /\ Running(t)

\* run_server(address, model, algorithm): the state when the server starts
\* with the given algorithm and a model built from one of the given vectors.
InitWith(alg, vectors) ==
    /\ \E p \in vectors :
          /\ initial = p
          /\ parameters = IF p = <<>> THEN ModelNew ELSE WithParameters(p)
    /\ algorithm = alg
    /\ req = [t \in Tasks |-> NoReq]
    /\ pc = [t \in Tasks |-> "idle"]
    /\ idx = [t \in Tasks |-> 0]
    /\ acc = [t \in Tasks |-> 0]
    /\ result = [t \in Tasks |-> NoResult]
    /\ response = [t \in Tasks |-> NoResponse]
    /\ snap = [t \in Tasks |-> <<>>]
    /\ raced = [t \in Tasks |-> FALSE]
    /\ late = [t \in Tasks |-> FALSE]

\* main.rs: the server runs DummyAlgorithm.
Init == InitWith("DummyAlgorithm", SeqsUpTo(Vals, MaxLen))

\* --------------------------------------------------------------- handlers.rs
\* handle_training_step / handle_inference_step up to the await: clone the
\* Arcs and hand the closure to spawn_blocking.  Requests are numbered in
\* the order they arrive.
Submit(t, k, x) ==
    /\ pc[t] = "idle"
    /\ \A u \in Tasks : u < t => pc[u] # "idle"
    /\ req' = [req EXCEPT ![t] = [kind |-> k, input |-> x]]
    /\ pc' = [pc EXCEPT ![t] = "spawned"]
    /\ UNCHANGED <<parameters, initial, algorithm, idx, acc, result, response,
                   snap, raced, late>>

\* -------------------------------------------------------------- algorithm.rs
\* A dispatcher that runs one step at a time.
BeginWhenAlone(t) ==
    /\ pc[t] = "spawned"
    /\ \A u \in Tasks : ~Running(u)
    /\ pc' = [pc EXCEPT ![t] = "iter"]
    /\ idx' = [idx EXCEPT ![t] = 1]
    /\ acc' = [acc EXCEPT ![t] = 0]
    /\ raced' = [raced EXCEPT ![t] = FALSE]
    /\ snap' = [snap EXCEPT ![t] = parameters]
    /\ late' = [late EXCEPT ![t] =
                 \E u \in Tasks : req[u].kind = "training" /\ pc[u] = "panicked"]
    /\ UNCHANGED <<parameters, initial, algorithm, req, result, response>>

\* The closure starts on a blocking thread: get_parameters_mut() or
\* get_parameters(), the simulated delay, then the iterator is created.
Begin(t) ==
    /\ pc[t] = "spawned"
    /\ pc' = [pc EXCEPT ![t] = "iter"]
    /\ idx' = [idx EXCEPT ![t] = 1]
    /\ acc' = [acc EXCEPT ![t] = 0]
    /\ raced' = [u \in Tasks |->
                  IF u = t THEN \E v \in Tasks : HoldsMut(v)
                  ELSE IF Running(u) THEN raced[u] \/ req[t].kind = "training"
                  ELSE raced[u]]
    /\ snap' = [u \in Tasks |->
                 IF u = t /\ ~raced'[t] THEN parameters
                 ELSE IF raced'[u] THEN <<>>
                 ELSE snap[u]]
    /\ late' = [late EXCEPT ![t] =
                 \E u \in Tasks : req[u].kind = "training" /\ pc[u] = "panicked"]
    /\ UNCHANGED <<parameters, initial, algorithm, req, result, response>>

\* A loop that reads the first element at every position.
LoadFirst(t) ==
    /\ req[t].kind = "training"
    /\ pc[t] = "iter"
    /\ idx[t] <= Len(parameters)
    /\ acc' = [acc EXCEPT ![t] = ModelOf(t)[1]]
    /\ pc' = [pc EXCEPT ![t] = "store"]
    /\ UNCHANGED <<parameters, initial, algorithm, req, idx, result, response,
                   snap, raced, late>>

\* `*param = *param * x` is a load of the element ...
Load(t) ==
    /\ req[t].kind = "training"
    /\ pc[t] = "iter"
    /\ idx[t] <= Len(parameters)
    /\ acc' = [acc EXCEPT ![t] = ModelOf(t)[idx[t]]]
    /\ pc' = [pc EXCEPT ![t] = "store"]
    /\ UNCHANGED <<parameters, initial, algorithm, req, idx, result, response,
                   snap, raced, late>>

\* The right-hand side `*param * x`.
UpdateAdds(p, x) == FAdd(p, x)
Update(p, x) == FMul(p, x)

\* The assignment through the iter_mut() reference to element i.
StoreTruncates(params, i, v) == Append(SubSeq(params, 1, i - 1), v)
StoreAt(params, i, v) == [params EXCEPT ![i] = v]

\* ... followed by a store of the product.
Store(t) ==
    /\ req[t].kind = "training"
    /\ pc[t] = "store"
    /\ parameters' = StoreAt(parameters, idx[t], Update(acc[t], req[t].input))
    /\ idx' = [idx EXCEPT ![t] = idx[t] + 1]
    /\ acc' = [acc EXCEPT ![t] = 0]
    /\ pc' = [pc EXCEPT ![t] = "iter"]
    /\ UNCHANGED <<initial, algorithm, req, result, response, snap, raced, late>>

\* for_each is done: Ok(())
TrainReturn(t) ==
    /\ req[t].kind = "training"
    /\ pc[t] = "iter"
    /\ idx[t] > Len(parameters)
    /\ result' = [result EXCEPT ![t] = OkUnit]
    /\ pc' = [pc EXCEPT ![t] = "returned"]
    /\ acc' = [acc EXCEPT ![t] = 0]
    /\ snap' = [snap EXCEPT ![t] = <<>>]
    /\ raced' = [raced EXCEPT ![t] = FALSE]
    /\ UNCHANGED <<parameters, initial, algorithm, req, idx, response, late>>

\* What reading element i through the &Vec<T> of get_parameters() leaves in
\* the vector.
AfterReadStores(params, i, x) == [params EXCEPT ![i] = FMul(params[i], x)]
AfterRead(params, i, x) == params

\* One term of .map(|param| *param * x).sum()
AddTermUnscaled(sum, p, x) == FAdd(sum, p)
AddTerm(sum, p, x) == FAdd(sum, FMul(p, x))

\* params.iter().map(|param| *param * x).sum(): one element per step.
Accumulate(t) ==
    /\ req[t].kind = "inference"
    /\ pc[t] = "iter"
    /\ idx[t] <= Len(parameters)
    /\ acc' = [acc EXCEPT ![t] = AddTerm(acc[t], ModelOf(t)[idx[t]], req[t].input)]
    /\ idx' = [idx EXCEPT ![t] = idx[t] + 1]
    /\ parameters' = AfterRead(parameters, idx[t], req[t].input)
    /\ UNCHANGED <<initial, algorithm, req, pc, result, response, snap, raced, late>>

\* Ok(sum)
InferReturn(t) ==
    /\ req[t].kind = "inference"
    /\ pc[t] = "iter"
    /\ idx[t] > Len(parameters)
    /\ result' = [result EXCEPT ![t] = OkVal(acc[t])]
    /\ pc' = [pc EXCEPT ![t] = "returned"]
    /\ acc' = [acc EXCEPT ![t] = 0]
    /\ snap' = [snap EXCEPT ![t] = <<>>]
    /\ raced' = [raced EXCEPT ![t] = FALSE]
    /\ UNCHANGED <<parameters, initial, algorithm, req, idx, response, late>>

\* An Algorithm other than DummyAlgorithm may return Err(ModelError) from a
\* step (the trait's return type) ...
StepErr(t, m) ==
    /\ algorithm = "FaultingAlgorithm"
    /\ pc[t] = "iter"
    /\ idx[t] = 1
    /\ result' = [result EXCEPT ![t] = LockError(m)]
    /\ pc' = [pc EXCEPT ![t] = "returned"]
    /\ idx' = [idx EXCEPT ![t] = 0]
    /\ acc' = [acc EXCEPT ![t] = 0]
    /\ snap' = [snap EXCEPT ![t] = <<>>]
    /\ raced' = [raced EXCEPT ![t] = FALSE]
    /\ UNCHANGED <<parameters, initial, algorithm, req, response, late>>

\* ... or panic at any point of the step; the JoinHandle then resolves to
\* Err(JoinError).
Panic(t, m) ==
    /\ algorithm = "FaultingAlgorithm"
    /\ Running(t)
    /\ result' = [result EXCEPT ![t] = JoinError(m)]
    /\ pc' = [pc EXCEPT ![t] = "panicked"]
    /\ idx' = [idx EXCEPT ![t] = 0]
    /\ acc' = [acc EXCEPT ![t] = 0]
    /\ snap' = [snap EXCEPT ![t] = <<>>]
    /\ raced' = [raced EXCEPT ![t] = FALSE]
    /\ UNCHANGED <<parameters, initial, algorithm, req, response, late>>

\* --------------------------------------------------------------- errors.rs
\* impl fmt::Display for ModelError
Display(e) == <<"LockError: ", e.msg>>

\* --------------------------------------------------------------- handlers.rs
\* format!("Task failed: {:?}", e)
TaskFailedAsDisplay(e) == <<"LockError: ", e.msg>>
TaskFailed(e) == <<"Task failed: ", e.msg>>

InternalServerError(b) == [status |-> 500, body |-> b, json |-> <<>>]

\* HttpResponse::Ok().json(result): the body is the serde_json text of the
\* float, which is a JSON number for a finite value and `null` for a
\* non-finite one.
OkJson(v) ==
    IF v = Inf THEN [status |-> 200, body |-> <<"null">>, json |-> <<>>]
    ELSE [status |-> 200, body |-> <<>>, json |-> <<v>>]

\* HttpResponse::Ok().finish()
OkFinish == [status |-> 200, body |-> <<>>, json |-> <<>>]

\* The match on the awaited JoinHandle.
HandlerResponse(k, r) ==
    CASE r.tag = "Ok" /\ k = "inference" -> OkJson(r.val)
      [] r.tag = "Ok" /\ k = "training" -> OkFinish
      [] r.tag = "Err" -> InternalServerError(Display(r))
      [] r.tag = "JoinError" -> InternalServerError(TaskFailed(r))

\* A handler that answers without awaiting the JoinHandle.
RespondWithoutAwait(t) ==
    /\ pc[t] # "idle"
    /\ response[t] = NoResponse
    /\ response' = [response EXCEPT ![t] =
                      IF Finished(t) THEN HandlerResponse(req[t].kind, result[t])
                      ELSE HandlerResponse(req[t].kind, OkUnit)]
    /\ UNCHANGED <<parameters, initial, algorithm, req, pc, idx, acc, result,
                   snap, raced, late>>

\* The handler resumes from the await when the worker has finished.
Respond(t) ==
    /\ Finished(t)
    /\ response[t] = NoResponse
    /\ response' = [response EXCEPT ![t] = HandlerResponse(req[t].kind, result[t])]
    /\ UNCHANGED <<parameters, initial, algorithm, req, pc, idx, acc, result,
                   snap, raced, late>>

\* The steps of the handlers and of the reference step, for requests whose
\* inputs are drawn from X.
Serve(X) ==
    \/ \E t \in Tasks, k \in {"training", "inference"}, x \in X : Submit(t, k, x)
    \/ \E t \in Tasks : Begin(t)
    \/ \E t \in Tasks : Load(t)
    \/ \E t \in Tasks : Store(t)
    \/ \E t \in Tasks : TrainReturn(t)
    \/ \E t \in Tasks : Accumulate(t)
    \/ \E t \in Tasks : InferReturn(t)
    \/ \E t \in Tasks : Respond(t)

Next == Serve(Inputs)

Spec == Init /\ [][Next]_vars

\* The server run with an Algorithm whose steps can fail.  The failure paths
\* do not depend on the numbers, so one initial value and one input are used.
FaultInit == InitWith("FaultingAlgorithm", SeqsUpTo({1}, MaxLen))

\* The failures of a step, with messages drawn from M.
Faults(M) ==
    \/ \E t \in Tasks, m \in M : StepErr(t, m)
    \/ \E t \in Tasks, m \in M : Panic(t, m)

FaultNext == Serve({2}) \/ Faults(Msgs)

FaultSpec == FaultInit /\ [][FaultNext]_vars

\* A client that sends its requests one training at a time: a request is sent
\* only when every earlier training request has been answered, and a training
\* request only when every earlier request has been answered.  Inference
\* requests may overlap each other.  The numbers are chosen so that products
\* are rounded.
OrdVals == {1, 3}
OrdInputs == {3, 5}

OrderedSubmit(t, k, x) ==
    /\ \A u \in Tasks :
          (u < t /\ (k = "training" \/ req[u].kind = "training"))
              => response[u] # NoResponse
    /\ Submit(t, k, x)

OrderedInit == InitWith("DummyAlgorithm", SeqsUpTo(OrdVals, MaxLen))

OrderedNext ==
    \/ \E t \in Tasks, k \in {"training", "inference"}, x \in OrdInputs :
          OrderedSubmit(t, k, x)
    \/ \E t \in Tasks : Begin(t)
    \/ \E t \in Tasks : Load(t)
    \/ \E t \in Tasks : Store(t)
    \/ \E t \in Tasks : TrainReturn(t)
    \/ \E t \in Tasks : Accumulate(t)
    \/ \E t \in Tasks : InferReturn(t)
    \/ \E t \in Tasks : Respond(t)

OrderedSpec == OrderedInit /\ [][OrderedNext]_vars

\* The JoinHandle of a closure that never started resolves to Err(JoinError):
\* the runtime dropped the queued blocking task.  This is the one way the
\* `Err(e)` arm of the handlers is taken while DummyAlgorithm runs.
Cancelled(t) ==
    /\ pc[t] = "spawned"
    /\ result' = [result EXCEPT ![t] = JoinError("cancelled")]
    /\ pc' = [pc EXCEPT ![t] = "panicked"]
    /\ UNCHANGED <<parameters, initial, algorithm, req, idx, acc, response,
                   snap, raced, late>>

\* The server of main.rs with worker tasks that can be cancelled.  The
\* failure path does not depend on the numbers.
CancelInit == InitWith("DummyAlgorithm", SeqsUpTo({1}, MaxLen))

CancelNext == Serve({2}) \/ \E t \in Tasks : Cancelled(t)

CancelSpec == CancelInit /\ [][CancelNext]_vars

\* The blocking pool runs the spawned closures and the async runtime polls the
\* handlers whose JoinHandle is ready: while some worker can take its next
\* step or some handler can resume, one of them does.
WorkerStep(t) ==
    \/ Begin(t)
    \/ Load(t)
    \/ Store(t)
    \/ TrainReturn(t)
    \/ Accumulate(t)
    \/ InferReturn(t)

Progress == \E t \in Tasks : WorkerStep(t) \/ Respond(t)

Fairness == WF_vars(Progress)

\* Whether a request is answered does not depend on the message of a failure
\* nor on the numbers, so one message and one vector are used; the vector has
\* two elements, so that a step goes round its loop more than once.
FairFaultInit == InitWith("FaultingAlgorithm", {<<1, 1>>})

FairFaultNext == Serve({2}) \/ Faults({"poisoned"})

FairFaultSpec == FairFaultInit /\ [][FairFaultNext]_vars /\ Fairness

\* ================================================================== claims
Begun(t) == pc[t] \notin {"idle", "spawned"}
ReturnedOk(t) == pc[t] = "returned" /\ result[t].tag = "Ok"

\* Every element multiplied by x, as one training_step alone leaves them.
Scale(p, x) == [i \in 1..Len(p) |-> FMul(p[i], x)]

\* The sum over i of p[i] * x, added up from 0 in index order.
RECURSIVE DotUpTo(_, _, _)
DotUpTo(p, x, n) == IF n = 0 THEN 0 ELSE FAdd(DotUpTo(p, x, n - 1), FMul(p[n], x))
Dot(p, x) == DotUpTo(p, x, Len(p))

\* C1 -- No lost update: on a store [v], once two training steps with
\* factors a and b have both completed (and no other training step has
\* begun), the stored value is v*a*b, in whichever order the two were applied.
C1_NoLostUpdate ==
    \A t, u \in Tasks :
        ( /\ t < u
          /\ Len(initial) = 1
          /\ req[t].kind = "training" /\ ReturnedOk(t)
          /\ req[u].kind = "training" /\ ReturnedOk(u)
          /\ \A w \in Tasks \ {t, u} : req[w].kind = "training" => ~Begun(w) )
        => parameters[1] \in
              { FMul(FMul(initial[1], req[t].input), req[u].input),
                FMul(FMul(initial[1], req[u].input), req[t].input) }

\* C2 -- No torn read: on a store of two or more elements, an inference
\* step with input x that ran while at most one training step with factor f
\* ran returns x * sum p_i or x * f * sum p_i, computed from the whole vector
\* before or after the update.
C2_NoTornRead ==
    \A t, u \in Tasks :
        ( /\ Len(initial) >= 2
          /\ req[t].kind = "inference" /\ ReturnedOk(t)
          /\ req[u].kind = "training"
          /\ \A w \in Tasks \ {u} : req[w].kind = "training" => ~Begun(w) )
        => result[t].val \in
              { Dot(initial, req[t].input),
                Dot(Scale(initial, req[u].input), req[t].input) }

\* C3 -- Write exclusivity: at most one training step holds the mutable
\* reference to the parameter vector at any time.
C3_WriteExclusive == Cardinality({t \in Tasks : HoldsMut(t)}) <= 1

\* C4 -- Inference is read-only: while no training step is in progress,
\* no step of any number of (possibly concurrent) inference requests changes
\* the parameter vector.
C4_InferenceReadOnly ==
    [][(\A t \in Tasks : ~HoldsMut(t)) => parameters' = parameters]_vars

\* Two inference steps have run to completion on a non-empty vector, and no
\* training request was ever submitted.
C4_Witness ==
    /\ Len(parameters) >= 1
    /\ \A t \in Tasks : req[t].kind = "inference" /\ ReturnedOk(t)

\* C5 -- Update law: a training step with scalar x that returns without
\* another training step having run beside it returns Ok and leaves every
\* parameter equal to its value when the step began times x (the empty
\* vector stays empty).
C5_UpdateLaw ==
    [][\A t \in Tasks :
          ( /\ req[t].kind = "training"
            /\ pc[t] = "iter" /\ pc'[t] = "returned"
            /\ ~raced[t] )
          => /\ result'[t] = OkUnit
             /\ parameters' = Scale(snap[t], req[t].input)]_vars

\* A training step that ran alone has returned and the two-element vector
\* holds the scaled values.
C5_Witness ==
    \E t \in Tasks :
        /\ req[t].kind = "training" /\ ReturnedOk(t)
        /\ \A u \in Tasks \ {t} : pc[u] = "idle"
        /\ Len(initial) = 2
        /\ parameters = Scale(initial, req[t].input)

\* C6 -- Inference law: an inference step with scalar x that returns
\* without a training step having run beside it returns Ok(sum of p_i * x)
\* for the current parameters, which is 0 for the empty vector.
C6_InferenceLaw ==
    [][\A t \in Tasks :
          ( /\ req[t].kind = "inference"
            /\ pc[t] = "iter" /\ pc'[t] = "returned"
            /\ ~raced[t] )
          => /\ result'[t] = OkVal(Dot(parameters, req[t].input))
             /\ (parameters = <<>> => result'[t].val = 0)]_vars

\* An inference step has returned a sum over a two-element vector that an
\* earlier training step had updated.
C6_Witness ==
    \E t, u \in Tasks :
        /\ req[u].kind = "training" /\ ReturnedOk(u)
        /\ req[t].kind = "inference" /\ ReturnedOk(t)
        /\ Len(parameters) = 2
        /\ parameters # initial
        /\ result[t].val = Dot(parameters, req[t].input)

\* C7 -- Fixed length: the parameter vector always has the length it was
\* constructed with.
C7_FixedLength == Len(parameters) = Len(initial)

\* Two training steps have raced on a two-element vector and both returned.
C7_Witness ==
    /\ Len(initial) = 2
    /\ \A t \in Tasks : req[t].kind = "training" /\ ReturnedOk(t)
    /\ parameters # initial

Answered(t) == response[t] # NoResponse

\* C8 -- Failure distinction: the response to a request whose worker
\* panicked (the JoinHandle resolved to Err) is never equal to the response
\* to a request whose step returned Err(ModelError).
C8_FailuresDistinct ==
    \A t, u \in Tasks :
        ( /\ Answered(t) /\ result[t].tag = "JoinError"
          /\ Answered(u) /\ result[u].tag = "Err" )
        => response[t] # response[u]

\* One request was answered after its worker panicked, another after its
\* step returned an error carrying the same message.
C8_Witness ==
    \E t, u \in Tasks :
        /\ Answered(t) /\ result[t].tag = "JoinError"
        /\ Answered(u) /\ result[u].tag = "Err"
        /\ result[t].msg = result[u].msg

\* C9 -- Poison reporting: a step that begins after a training step panicked
\* while holding the mutable reference returns Err(ModelError::LockError).
C9_PoisonReported ==
    \A t \in Tasks : (late[t] /\ pc[t] = "returned") => result[t].tag = "Err"

\* C10 -- Response only after completion: a request is answered only once
\* its worker has finished, and a training request answered with success
\* has returned Ok after storing the product into every element.
C10_ResponseAfterCompletion ==
    \A t \in Tasks :
        Answered(t) =>
            /\ Finished(t)
            /\ (req[t].kind = "training" /\ response[t].status = 200)
                  => /\ ReturnedOk(t)
                     /\ idx[t] = Len(parameters) + 1

\* A training request on a two-element vector was answered with success
\* while the other request is still running.
C10_Witness ==
    \E t, u \in Tasks :
        /\ req[t].kind = "training" /\ response[t].status = 200
        /\ Len(parameters) = 2
        /\ Running(u)

\* C11 -- Every submission is answered: under fair scheduling of the workers
\* and handlers, again and again every request submitted so far has been
\* answered (with success, a step error or a worker failure), so no request
\* stays pending forever; and a response once given is never replaced.
C11_EverySubmissionAnswered ==
    /\ []<>(\A t \in Tasks : pc[t] = "idle" \/ Answered(t))
    /\ [][\A t \in Tasks : Answered(t) => response'[t] = response[t]]_vars

\* Every request has been answered: one after its worker panicked, one with
\* success.
C11_Witness ==
    /\ \A t \in Tasks : Answered(t)
    /\ \E t \in Tasks : result[t].tag = "JoinError"
    /\ \E t \in Tasks : result[t].tag = "Ok"

\* C12 -- Transport mapping: an inference request whose step returned Ok(v)
\* is answered 200 with the number v as JSON; a training request whose step
\* returned Ok is answered 200 with an empty body; a request whose step
\* returned an error or whose worker failed is answered 500 with the error
\* message.
C12_TransportMapping ==
    \A t \in Tasks :
        Answered(t) =>
            /\ (result[t].tag = "Ok" /\ req[t].kind = "inference")
                  => response[t].status = 200 /\ response[t].json = <<result[t].val>>
            /\ (result[t].tag = "Ok" /\ req[t].kind = "training")
                  => /\ response[t].status = 200
                     /\ response[t].body = <<>> /\ response[t].json = <<>>
            /\ result[t].tag \in {"Err", "JoinError"}
                  => /\ response[t].status = 500
                     /\ Len(response[t].body) = 2
                     /\ response[t].body[2] = result[t].msg

\* C13 -- No dispatcher-level queuing: a spawned step can begin whatever the
\* other requests are doing, and a running inference step can always take
\* its next step; no request waits for another.
C13_NoQueuing ==
    \A t \in Tasks :
        /\ pc[t] = "spawned" => ENABLED Begin(t)
        /\ (req[t].kind = "inference" /\ Running(t))
              => ENABLED (Accumulate(t) \/ InferReturn(t))

\* Two inference steps are in the middle of their sums at the same time.
C13_Witness ==
    \E t, u \in Tasks :
        /\ t # u
        /\ req[t].kind = "inference" /\ Running(t) /\ idx[t] = 2
        /\ req[u].kind = "inference" /\ Running(u) /\ idx[u] = 2

\* The vector after the training steps among requests 1..n that have
\* returned ran one after another, in the order of their requests.
RECURSIVE ScaleAll(_, _)
ScaleAll(p, n) ==
    IF n = 0 THEN p
    ELSE IF req[n].kind = "training" /\ ReturnedOk(n)
         THEN Scale(ScaleAll(p, n - 1), req[n].input)
         ELSE ScaleAll(p, n - 1)

\* The same factors applied in the opposite order.
RECURSIVE ScaleAllReversed(_, _)
ScaleAllReversed(p, n) ==
    IF n = 0 THEN p
    ELSE IF req[n].kind = "training" /\ ReturnedOk(n)
         THEN ScaleAllReversed(Scale(p, req[n].input), n - 1)
         ELSE ScaleAllReversed(p, n - 1)

\* C14 -- Single shared store: once a training request with factor x has
\* been answered, an inference request with input y sent afterwards, with no
\* training request between the two, returns the sum of (p_i * x) * y, where
\* p is the vector before that training step.
C14_SharedStore ==
    \A t, u \in Tasks :
        ( /\ t < u
          /\ req[t].kind = "training" /\ Answered(t)
          /\ req[u].kind = "inference" /\ ReturnedOk(u)
          /\ \A w \in Tasks : (t < w /\ w < u) => req[w].kind # "training" )
        => result[u].val =
              Dot(Scale(ScaleAll(initial, t - 1), req[t].input), req[u].input)

\* An inference request sent after an answered training request has returned
\* its sum over a two-element vector.
C14_Witness ==
    \E t, u \in Tasks :
        /\ t < u
        /\ req[t].kind = "training" /\ Answered(t)
        /\ req[u].kind = "inference" /\ ReturnedOk(u)
        /\ Len(parameters) = 2
        /\ result[u].val # Dot(initial, req[u].input)

\* No training step is between its begin and its return.
NoTrainingRunning ==
    \A t \in Tasks : req[t].kind = "training" => ~Running(t)

\* The exact product of the factors of the training steps that returned.
RECURSIVE Product(_)
Product(n) ==
    IF n = 0 THEN 1
    ELSE IF req[n].kind = "training" /\ ReturnedOk(n)
         THEN Product(n - 1) * req[n].input
         ELSE Product(n - 1)

C16_NoStepError ==
    algorithm = "DummyAlgorithm" =>
        \A t \in Tasks :
            /\ pc[t] = "returned" => result[t].tag = "Ok"
            /\ result[t].tag # "Err"
            /\ (Answered(t) /\ response[t].status # 200)
                  => /\ result[t].tag = "JoinError"
                     /\ response[t] = InternalServerError(TaskFailed(result[t]))
                     /\ response[t].body[1] = "Task failed: "

\* One of two requests was answered "Task failed: " and the other, a
\* training request whose step returned Ok, with success.
C16_Witness ==
    /\ algorithm = "DummyAlgorithm"
    /\ \E t, u \in Tasks :
          /\ Answered(t) /\ response[t].status = 500
          /\ Answered(u) /\ ReturnedOk(u) /\ response[u].status = 200
          /\ req[u].kind = "training"
====
